---- MODULE Spec2Model ----
(***************************************************************************)
(* A model of safe_learning/utilities.py: combinations,                    *)
(* linearly_spaced_combinations, lqr and ellipse_bounds.                   *)
(*                                                                         *)
(* Every function is pure, so a behaviour is one call: the initial state   *)
(* holds the call and its arguments, the actions are the function bodies.  *)
(* There is one specification per group of functions: SpecGrid, SpecLqr    *)
(* and SpecEllipse.                                                        *)
(***************************************************************************)
EXTENDS Integers, Sequences, FiniteSets

VARIABLES call,    \* the function called and its arguments
          pc,      \* the position in the function body
          locals,  \* the local variables assigned so far
          ret      \* how the call ended and what it returned

vars == <<call, pc, locals, ret>>

NoLocals == [none |-> TRUE]
NoReturn == [outcome |-> "running"]

Returned(v) == [outcome |-> "returned", value |-> v]
Raised(e) == [outcome |-> "raised", error |-> e]

(***************************************************************************)
(* Sequence helpers (numpy shapes are sequences of axis lengths).          *)
(***************************************************************************)
RECURSIVE Prod(_)
Prod(s) == IF s = <<>> THEN 1 ELSE Head(s) * Prod(Tail(s))

Reverse(s) == [i \in 1..Len(s) |-> s[Len(s) + 1 - i]]

Min(a, b) == IF a <= b THEN a ELSE b

(***************************************************************************)
(* combinations(arrays)                                                    *)
(*   np.array(np.meshgrid(arrays...)).T.reshape(-1, len(arrays))           *)
(***************************************************************************)

\* The C-order multi-index (0-based) of flat position f in an array of the
\* given shape: the last axis varies fastest.
Unravel(f, shape) ==
    [i \in 1..Len(shape) |->
        (f \div Prod(SubSeq(shape, i + 1, Len(shape)))) % shape[i]]

\* np.meshgrid's default indexing='xy': the first two axes are swapped, so
\* input c varies along axis 2 for c = 1, axis 1 for c = 2 and axis c else.
MeshgridAxis(c, d) == IF d >= 2 /\ c = 1 THEN 2 ELSE IF d >= 2 /\ c = 2 THEN 1 ELSE c

\* The shape every grid of np.meshgrid of the arrays has.
MeshgridShape(arrays) ==
    LET d == Len(arrays)
    IN  [a \in 1..d |-> Len(arrays[CHOOSE c \in 1..d : MeshgridAxis(c, d) = a])]

\* Grid c of np.meshgrid of the arrays at the multi-index idx (0-based entries).
MeshgridAt(arrays, c, idx) == arrays[c][idx[MeshgridAxis(c, Len(arrays))] + 1]

\* The same without the transposition: reshape reads the stacked grids, of
\* shape <<d>> \o S, in C order.
combinationsNoTranspose(arrays) ==
    LET d == Len(arrays)
        S == MeshgridShape(arrays)
        rows == (d * Prod(S)) \div d
    IN  [r \in 1..rows |->
            [c \in 1..d |->
                LET at == Unravel((r - 1) * d + (c - 1), <<d>> \o S)
                IN  MeshgridAt(arrays, at[1] + 1, Tail(at))]]

\* np.array(grids) has shape <<d>> \o S; .T reverses the axes, so
\* T[j_1..j_d, c] = grid_c[j_d..j_1]; reshape(-1, d) reads T in C order, d
\* entries to a row, the row count being size / d.
combinations(arrays) ==
    LET d == Len(arrays)
        S == MeshgridShape(arrays)
        size == d * Prod(S)
        rows == size \div d
    IN  [r \in 1..rows |->
            [c \in 1..d |->
                MeshgridAt(arrays, c, Reverse(Unravel(r - 1, Reverse(S))))]]

(***************************************************************************)
(* linearly_spaced_combinations(bounds, num_samples)                       *)
(***************************************************************************)

\* A float that np.linspace produces is modelled by the exact rational
\* <<numerator, denominator>>, denominator > 0.
Rat(n, d) == <<n, d>>

\* The same, one step too far: the points start at start + step.
linspaceShifted(start, stop, num) ==
    [i \in 1..num |->
        IF num = 1 THEN Rat(start, 1)
        ELSE Rat(start * (num - 1) + i * (stop - start), num - 1)]

\* np.linspace(start, stop, num): num points, the end point included; a single
\* point is start.
linspace(start, stop, num) ==
    [i \in 1..num |->
        IF num = 1 THEN Rat(start, 1)
        ELSE Rat(start * (num - 1) + (i - 1) * (stop - start), num - 1)]

\* zip(a, b) stops at the shorter of its arguments.
ZipLen(a, b) == Min(Len(a), Len(b))

\* num_samples is either a scalar, [seq |-> FALSE, n |-> k], or a Sequence,
\* [seq |-> TRUE, ns |-> <<...>>] (the isinstance test of line 60).
Broadcast(num_samples, num_vars) ==
    IF ~num_samples.seq THEN [i \in 1..num_vars |-> num_samples.n]
    ELSE num_samples.ns

linearly_spaced_combinations(bounds, num_samples) ==
    LET num_vars == Len(bounds)
        ns == Broadcast(num_samples, num_vars)
        inputs == [i \in 1..ZipLen(bounds, ns) |->
                      linspace(bounds[i][1], bounds[i][2], ns[i])]
    IN  combinations(inputs)

(***************************************************************************)
(* The calls of the grid functions.                                        *)
(***************************************************************************)
MaxDim == 3       \* combinations: at most this many arrays
MaxLen == 2       \* combinations: each array has at most this many elements
MaxVars == 2      \* linearly_spaced_combinations: at most this many bounds
MaxSamples == 2   \* linearly_spaced_combinations: counts are 0..MaxSamples

\* Arrays of distinct values: an ascending or a descending run.
Arrays ==
    UNION {{[i \in 1..n |-> i - 1], [i \in 1..n |-> n - i]} : n \in 0..MaxLen}

ArrayLists == UNION {[1..d -> Arrays] : d \in 1..MaxDim}

BoundPairs == {<<0, 0>>, <<0, 2>>, <<-1, 1>>}

BoundLists == UNION {[1..d -> BoundPairs] : d \in 1..MaxVars}

SampleSpecs ==
    {[seq |-> FALSE, n |-> k, ns |-> <<>>] : k \in 0..MaxSamples}
    \cup {[seq |-> TRUE, n |-> 0, ns |-> s] :
             s \in UNION {[1..l -> 0..MaxSamples] : l \in 1..(MaxVars + 1)}}

GridCalls ==
    {[op |-> "combinations", arrays |-> a, bounds |-> <<>>,
      num_samples |-> [seq |-> FALSE, n |-> 0, ns |-> <<>>]] : a \in ArrayLists}
    \cup {[op |-> "linearly_spaced_combinations", arrays |-> <<>>, bounds |-> b,
           num_samples |-> s] : b \in BoundLists, s \in SampleSpecs}

InitGrid ==
    /\ call \in GridCalls
    /\ pc = "start"
    /\ locals = NoLocals
    /\ ret = NoReturn

Combinations ==
    /\ pc = "start"
    /\ call.op = "combinations"
    /\ ret' = Returned(combinations(call.arrays))
    /\ pc' = "done"
    /\ UNCHANGED <<call, locals>>

LinearlySpacedCombinations ==
    /\ pc = "start"
    /\ call.op = "linearly_spaced_combinations"
    /\ ret' = Returned(linearly_spaced_combinations(call.bounds, call.num_samples))
    /\ pc' = "done"
    /\ UNCHANGED <<call, locals>>

NextGrid == Combinations \/ LinearlySpacedCombinations

SpecGrid == InitGrid /\ [][NextGrid]_vars

(***************************************************************************)
(* Claims about the grid functions (specification SpecGrid).                *)
(***************************************************************************)
DoneOp(op) == pc = "done" /\ call.op = op

Lengths(arrays) == [i \in 1..Len(arrays) |-> Len(arrays[i])]

Elements(a) == {a[k] : k \in 1..Len(a)}

\* The Cartesian product of the arrays, as a set of tuples.
CartesianProduct(arrays) ==
    {t \in [1..Len(arrays) -> UNION {Elements(arrays[i]) : i \in 1..Len(arrays)}] :
        \A i \in 1..Len(arrays) : t[i] \in Elements(arrays[i])}

\* C1: combinations(arrays), for d >= 1 arrays of distinct values, returns
\* n_1*...*n_d rows of d columns; the rows are pairwise different and, as a
\* set, are exactly the Cartesian product of the arrays (0 rows when an
\* array is empty).
C1_CombinationsIsCartesianProduct ==
    DoneOp("combinations") =>
        LET arrays == call.arrays
            rows == ret.value
        IN  /\ ret.outcome = "returned"
            /\ Len(rows) = Prod(Lengths(arrays))
            /\ \A r \in 1..Len(rows) : Len(rows[r]) = Len(arrays)
            /\ Elements(rows) = CartesianProduct(arrays)
            /\ \A r, q \in 1..Len(rows) : rows[r] = rows[q] => r = q

\* Three arrays of lengths 2, 1 and 2 were combined into 4 rows.
C1_Witness ==
    /\ DoneOp("combinations")
    /\ Lengths(call.arrays) = <<2, 1, 2>>
    /\ Len(ret.value) = 4

EffectiveCounts(bounds, num_samples) ==
    [i \in 1..Len(bounds) |->
        IF num_samples.seq THEN num_samples.ns[i] ELSE num_samples.n]

MatchingSpec(bounds, num_samples) ==
    num_samples.seq => Len(num_samples.ns) = Len(bounds)

\* min <= value <= max for the rational value.
InClosedInterval(value, min, max) ==
    /\ min * value[2] <= value[1]
    /\ value[1] <= max * value[2]

\* C2: linearly_spaced_combinations(bounds, num_samples), with a scalar count
\* or one count per bound, returns as many rows as the product of the
\* effective per-dimension counts, and every entry of column i lies in
\* [min_i, max_i].
C2_GridRowCountAndBounds ==
    (DoneOp("linearly_spaced_combinations")
     /\ MatchingSpec(call.bounds, call.num_samples)) =>
        LET bounds == call.bounds
            rows == ret.value
        IN  /\ ret.outcome = "returned"
            /\ Len(rows) = Prod(EffectiveCounts(bounds, call.num_samples))
            /\ \A r \in 1..Len(rows) :
                   /\ Len(rows[r]) = Len(bounds)
                   /\ \A i \in 1..Len(bounds) :
                          InClosedInterval(rows[r][i], bounds[i][1], bounds[i][2])

\* Two bounds with two samples each gave 4 rows with interior spacing.
C2_Witness ==
    /\ DoneOp("linearly_spaced_combinations")
    /\ call.bounds = <<<<-1, 1>>, <<0, 2>>>>
    /\ call.num_samples.seq
    /\ call.num_samples.ns = <<2, 2>>
    /\ Len(ret.value) = 4

\* C3: a call of linearly_spaced_combinations whose num_samples is a sequence
\* of another length than bounds fails with ConfigurationError and returns
\* no grid.
C3_MismatchRaisesConfigurationError ==
    (DoneOp("linearly_spaced_combinations")
     /\ ~MatchingSpec(call.bounds, call.num_samples)) =>
        /\ ret.outcome = "raised"
        /\ ret.error = "ConfigurationError"

(***************************************************************************)
(* lqr(A, B, Q, R)                                                         *)
(*                                                                         *)
(* A matrix is a sequence of rows with integer entries.                    *)
(***************************************************************************)
NumRows(M) == Len(M)
NumCols(M) == Len(M[1])

Transpose(M) == [j \in 1..NumCols(M) |-> [i \in 1..NumRows(M) |-> M[i][j]]]

RECURSIVE Sum(_)
Sum(s) == IF s = <<>> THEN 0 ELSE Head(s) + Sum(Tail(s))

\* X.dot(Y)
Dot(X, Y) ==
    [i \in 1..NumRows(X) |->
        [j \in 1..NumCols(Y) |->
            Sum([k \in 1..NumCols(X) |-> X[i][k] * Y[k][j]])]]

\* M without row 1 and column c.
Minor(M, c) ==
    [i \in 1..(Len(M) - 1) |->
        [j \in 1..(Len(M) - 1) |-> M[i + 1][IF j < c THEN j ELSE j + 1]]]

RECURSIVE Det(_)
Det(M) ==
    IF Len(M) = 1 THEN M[1][1]
    ELSE Sum([c \in 1..Len(M) |->
                 (IF c % 2 = 1 THEN 1 ELSE -1) * M[1][c] * Det(Minor(M, c))])

\* M with column c replaced by column j of X.
ReplaceColumn(M, c, X, j) ==
    [i \in 1..Len(M) |-> [k \in 1..Len(M) |-> IF k = c THEN X[i][j] ELSE M[i][k]]]

\* A solve that never reports a singular matrix.
NeverSingular(a) == FALSE

\* np.linalg.solve(a, b) raises LinAlgError("Singular matrix") for a singular a.
LinalgSolveRaises(a) == Det(a) = 0

\* np.linalg.solve(a, b) for a regular a: the x with a.dot(x) = b, computed by
\* Cramer's rule. Its entries are the rationals x.num[i][j] / x.den.
LinalgSolve(a, b) ==
    [num |-> [i \in 1..NumRows(a) |->
                 [j \in 1..NumCols(b) |-> Det(ReplaceColumn(a, i, b, j))]],
     den |-> Det(a)]

\* The right-hand side with P transposed as well.
GainRhsNoTranspose(B, P) == Dot(Transpose(B), Transpose(P))

\* B.T.dot(P), the right-hand side of the gain's linear system.
GainRhs(B, P) == Dot(Transpose(B), P)

MaxEntry == 1     \* the entries of B, R and P are 0..MaxEntry

StateDims == {1, 2}
InputDims == {1, 2}

Matrices(rows, cols) == [1..rows -> [1..cols -> 0..MaxEntry]]

SymmetricMatrices(n) == {M \in Matrices(n, n) : M = Transpose(M)}

Identity(n) == [i \in 1..n |-> [j \in 1..n |-> IF i = j THEN 1 ELSE 0]]

\* The chain of integrators: ones above the diagonal.
Integrators(n) == [i \in 1..n |-> [j \in 1..n |-> IF j = i + 1 THEN 1 ELSE 0]]

LqrCalls ==
    UNION {{[op |-> "lqr", A |-> Integrators(n), B |-> b, Q |-> Identity(n), R |-> r] :
               b \in Matrices(n, m), r \in SymmetricMatrices(m)} :
           n \in StateDims, m \in InputDims}

LqrLocals(called, P, K) == [called |-> called, P |-> P, K |-> K]

InitLqr ==
    /\ call \in LqrCalls
    /\ pc = "start"
    /\ locals = LqrLocals(<<>>, <<>>, <<>>)
    /\ ret = NoReturn

\* Line 89: P = scipy.linalg.solve_continuous_are(A, B, Q, R). The solver is a
\* library routine: it returns some n x n matrix or raises.
SolveContinuousAre ==
    /\ pc = "start"
    /\ \/ \E P \in Matrices(NumRows(call.A), NumRows(call.A)) :
             /\ locals' = LqrLocals(<<"solve_continuous_are">>, P, <<>>)
             /\ pc' = "gain"
             /\ ret' = ret
       \/ \E e \in {"LinAlgError", "ValueError"} :
             /\ locals' = LqrLocals(<<"solve_continuous_are">>, <<>>, <<>>)
             /\ pc' = "done"
             /\ ret' = Raised(e)
    /\ UNCHANGED call

\* Line 92: K = np.linalg.solve(R, B.T.dot(P))
Gain ==
    /\ pc = "gain"
    /\ LET called == Append(locals.called, "np.linalg.solve")
       IN  IF LinalgSolveRaises(call.R)
           THEN /\ locals' = LqrLocals(called, locals.P, <<>>)
                /\ pc' = "done"
                /\ ret' = Raised("LinAlgError")
           ELSE /\ locals' = LqrLocals(called, locals.P,
                                       LinalgSolve(call.R, GainRhs(call.B, locals.P)))
                /\ pc' = "return"
                /\ ret' = ret
    /\ UNCHANGED call

\* Line 94: return K, P
ReturnLqr ==
    /\ pc = "return"
    /\ ret' = Returned([K |-> locals.K, P |-> locals.P])
    /\ pc' = "done"
    /\ UNCHANGED <<call, locals>>

NextLqr == SolveContinuousAre \/ Gain \/ ReturnLqr

SpecLqr == InitLqr /\ [][NextLqr]_vars

(***************************************************************************)
(* Claims about lqr (specification SpecLqr).                                *)
(***************************************************************************)
Scale(M, k) == [i \in 1..NumRows(M) |-> [j \in 1..NumCols(M) |-> k * M[i][j]]]

C7_GainSolvesRKEqualsBtP ==
    (pc = "done" /\ ret.outcome = "returned") =>
        LET K == ret.value.K
            P == ret.value.P
            n == NumRows(call.A)
            m == NumRows(call.R)
        IN  /\ NumRows(K.num) = m /\ \A i \in 1..m : Len(K.num[i]) = n
            /\ NumRows(P) = n /\ \A i \in 1..n : Len(P[i]) = n
            /\ K.den # 0
            /\ Dot(call.R, K.num) = Scale(Dot(Transpose(call.B), P), K.den)
            /\ P = locals.P

\* Two states, two inputs, a non-symmetric P and a gain with a fraction.
C7_Witness ==
    /\ pc = "done"
    /\ ret.outcome = "returned"
    /\ NumRows(call.A) = 2
    /\ call.R = <<<<1, 1>>, <<1, 0>>>>
    /\ ret.value.P = <<<<1, 1>>, <<0, 1>>>>
    /\ call.B = <<<<0, 1>>, <<1, 1>>>>
    /\ ret.value.K.den = -1

(***************************************************************************)
(* ellipse_bounds(P, level, n)                                             *)
(*                                                                         *)
(* A finite float is modelled in fixed point: the integer v stands for     *)
(* v / One. A float is a record: Fin(v), NaN, or Inf(1) and Inf(-1).       *)
(***************************************************************************)
One == 10000
Pi == 31416            \* np.pi
TwoPi == 2 * Pi
HalfPi == Pi \div 2

Abs(a) == IF a < 0 THEN -a ELSE a
Sgn(a) == IF a < 0 THEN -1 ELSE 1

\* a * b and a / b of finite floats (MulN: the product of two magnitudes).
MulN(a, b) == a * (b \div One) + (a * (b % One)) \div One
Mul(a, b) == Sgn(a) * Sgn(b) * MulN(Abs(a), Abs(b))
Div(a, b) == Sgn(a) * Sgn(b) * ((Abs(a) * One) \div Abs(b))

\* np.sqrt of a finite x >= 0: the largest r with r * r <= x.
RECURSIVE SqrtSearch(_, _, _)
SqrtSearch(x, lo, hi) ==
    IF lo >= hi THEN lo
    ELSE LET mid == (lo + hi + 1) \div 2
         IN  IF MulN(mid, mid) <= x THEN SqrtSearch(x, mid, hi)
             ELSE SqrtSearch(x, lo, mid - 1)

Sqrt(x) == SqrtSearch(x, 0, x + One)

\* np.sin and np.cos of a finite angle: the sine series on [0, pi/2] and the
\* symmetries of the circle.
RECURSIVE SinSeries(_, _, _)
SinSeries(x, term, k) ==
    IF k > 7 THEN 0
    ELSE term + SinSeries(x, (-Mul(Mul(term, x), x)) \div ((2 * k) * (2 * k + 1)), k + 1)

SinQuadrant(x) == SinSeries(x, x, 1)

Sin(x) ==
    LET y == x % TwoPi
    IN  IF y <= HalfPi THEN SinQuadrant(y)
        ELSE IF y <= Pi THEN SinQuadrant(Pi - y)
        ELSE IF y <= Pi + HalfPi THEN -SinQuadrant(y - Pi)
        ELSE -SinQuadrant(TwoPi - y)

Cos(x) == Sin(x + HalfPi)

\* np.arctan of a finite x: the series after halving the angle, and
\* arctan(x) = +-pi/2 - arctan(1/x) for |x| > 1.
RECURSIVE ArctanSeries(_, _, _)
ArctanSeries(x, power, k) ==
    IF k > 7 THEN 0
    ELSE Sgn(power) * (Abs(power) \div (2 * k - 1))
         + ArctanSeries(x, -Mul(Mul(power, x), x), k + 1)

ArctanUnit(x) ==
    LET half == Div(x, One + Sqrt(One + Mul(x, x)))
    IN  2 * ArctanSeries(half, half, 1)

Arctan(x) ==
    IF Abs(x) <= One THEN ArctanUnit(x)
    ELSE Sgn(x) * (HalfPi - ArctanUnit(Div(One, Abs(x))))

Fin(v) == [k |-> "fin", v |-> v]
NaN == [k |-> "nan", v |-> 0]
Inf(sign) == [k |-> "inf", v |-> sign]
IsFin(x) == x.k = "fin"
IsNaN(x) == x.k = "nan"

\* IEEE arithmetic on floats (a zero is taken to be +0.0).
FMul(x, y) ==
    IF IsNaN(x) \/ IsNaN(y) THEN NaN
    ELSE IF IsFin(x) /\ IsFin(y) THEN Fin(Mul(x.v, y.v))
    ELSE IF (IsFin(x) /\ x.v = 0) \/ (IsFin(y) /\ y.v = 0) THEN NaN
    ELSE Inf(Sgn(x.v) * Sgn(y.v))

FDiv(x, y) ==
    IF IsNaN(x) \/ IsNaN(y) THEN NaN
    ELSE IF IsFin(x) /\ IsFin(y)
         THEN IF y.v # 0 THEN Fin(Div(x.v, y.v))
              ELSE IF x.v = 0 THEN NaN ELSE Inf(Sgn(x.v))
    ELSE IF IsFin(x) THEN Fin(0)
    ELSE IF IsFin(y) THEN Inf(Sgn(x.v) * Sgn(y.v))
    ELSE NaN

FAdd(x, y) ==
    IF IsNaN(x) \/ IsNaN(y) THEN NaN
    ELSE IF IsFin(x) /\ IsFin(y) THEN Fin(x.v + y.v)
    ELSE IF IsFin(x) THEN y
    ELSE IF IsFin(y) THEN x
    ELSE IF x.v = y.v THEN x ELSE NaN

FSqrt(x) ==
    IF IsNaN(x) THEN NaN
    ELSE IF IsFin(x) THEN (IF x.v < 0 THEN NaN ELSE Fin(Sqrt(x.v)))
    ELSE IF x.v > 0 THEN x ELSE NaN

FArctan(x) ==
    IF IsNaN(x) THEN NaN
    ELSE IF IsFin(x) THEN Fin(Arctan(x.v))
    ELSE Fin(x.v * HalfPi)

FCos(x) == IF IsFin(x) THEN Fin(Cos(x.v)) ELSE NaN
FSin(x) == IF IsFin(x) THEN Fin(Sin(x.v)) ELSE NaN

\* The eigenpairs <<eigenvalue, unit eigenvector>> of the symmetric integer
\* matrix [[a, b], [b, d]]: (a + d)/2 +- sqrt(((a - d)/2)^2 + b^2), with the
\* eigenvector (b, lambda - a) normalised; a diagonal matrix has the unit
\* vectors.
EigPairs(P) ==
    LET a == P[1][1]
        b == P[1][2]
        d == P[2][2]
        mean == ((a + d) * One) \div 2
        r == Sqrt((((a - d) * (a - d) + 4 * b * b) * One) \div 4)
        pair(lam) ==
            LET u == <<b * One, lam - a * One>>
                norm == Sqrt(Mul(u[1], u[1]) + Mul(u[2], u[2]))
            IN  <<lam, <<Div(u[1], norm), Div(u[2], norm)>>>>
    IN  IF b = 0 THEN << <<a * One, <<One, 0>>>>, <<d * One, <<0, One>>>> >>
        ELSE <<pair(mean + r), pair(mean - r)>>

\* np.linalg.eig(P): the eigenvalues in some order and, in the columns of
\* eigvec, their unit eigenvectors, each with either sign (LAPACK fixes
\* neither the order nor the signs).
EigOutcomes(P) ==
    LET pairs == EigPairs(P)
    IN  {[eigval |-> [c \in 1..2 |-> Fin(pairs[order[c]][1])],
          eigvec |-> [row \in 1..2 |->
                         [c \in 1..2 |-> Fin(sign[c] * pairs[order[c]][2][row])]]] :
            order \in {<<1, 2>>, <<2, 1>>}, sign \in [1..2 -> {1, -1}]}

\* Line 134: eigvec *= np.sqrt(level / eigval) scales column c by the c-th
\* factor.
ScaledAxes(eigvec, eigval, level) ==
    [row \in 1..2 |->
        [c \in 1..2 |->
            FMul(eigvec[row][c], FSqrt(FDiv(Fin(level * One), eigval[c])))]]

\* The angles 2*pi*i/n, i < n: the end point left out.
AngleGridOpen(n) == [i \in 1..n |-> Fin((i - 1) * Div(TwoPi, n * One))]

\* Line 137: np.linspace(0, 2 * np.pi, n), the end point 2*pi included.
AngleGrid(n) ==
    [i \in 1..n |->
        IF n = 1 THEN Fin(0)
        ELSE IF i = n THEN Fin(TwoPi)
        ELSE Fin((i - 1) * Div(TwoPi, (n - 1) * One))]

\* Line 138: angle += np.arctan(eigvec[0, 1] / eigvec[0, 0])
ShiftedAngles(n, eigvec) ==
    LET offset == FArctan(FDiv(eigvec[1][2], eigvec[1][1]))
        grid == AngleGrid(n)
    IN  [i \in 1..n |-> FAdd(grid[i], offset)]

\* Line 141: row i of pos is cos(angle_i) * eigvec[:, 0] + sin(angle_i) * eigvec[:, 1]
Positions(angle, eigvec) ==
    [i \in 1..Len(angle) |->
        [row \in 1..2 |->
            FAdd(FMul(FCos(angle[i]), eigvec[row][1]),
                 FMul(FSin(angle[i]), eigvec[row][2]))]]

Column(pos, c) == [i \in 1..Len(pos) |-> pos[i][c]]

\* s[:stop]
SliceTo(s, stop) == SubSeq(s, 1, Min(stop, Len(s)))

\* s[:stop:-1]: from the last element down to, not including, index stop.
SliceDownTo(s, stop) == [i \in 1..(Len(s) - 1 - stop) |-> s[Len(s) + 1 - i]]

\* Line 145: pos[:n, 0], pos[:n, 1], pos[:n - 1:-1, 1]
BoundaryTriple(pos, n) ==
    [x |-> SliceTo(Column(pos, 1), n),
     yu |-> SliceTo(Column(pos, 2), n),
     yl |-> SliceDownTo(Column(pos, 2), n - 1)]

MaxDiag == 2      \* the diagonal of P is in -1..MaxDiag
MaxLevel == 2     \* level is in 1..MaxLevel
MaxPoints == 5    \* n is in 1..MaxPoints

ShapeMatrices ==
    {<<<<a, b>>, <<b, d>>>> : a \in -1..MaxDiag, d \in -1..MaxDiag, b \in {-1, 0, 1}}

EllipseCalls ==
    {[op |-> "ellipse_bounds", P |-> P, level |-> level, n |-> n] :
        P \in ShapeMatrices, level \in 1..MaxLevel, n \in 1..MaxPoints}

EllipseLocals(n, eigval, eigvec, pos) ==
    [n |-> n, eigval |-> eigval, eigvec |-> eigvec, pos |-> pos]

InitEllipse ==
    /\ call \in EllipseCalls
    /\ pc = "start"
    /\ locals = EllipseLocals([float |-> FALSE, v |-> 0], <<>>, <<>>, <<>>)
    /\ ret = NoReturn

\* Lines 130-133: n += n % 2; eigval, eigvec = np.linalg.eig(P)
Eig ==
    /\ pc = "start"
    /\ \E e \in EigOutcomes(call.P) :
          locals' = EllipseLocals([float |-> FALSE, v |-> call.n + (call.n % 2)],
                                  e.eigval, e.eigvec, <<>>)
    /\ pc' = "axes"
    /\ UNCHANGED <<call, ret>>

\* Line 134
Axes ==
    /\ pc = "axes"
    /\ locals' = [locals EXCEPT
                     !.eigvec = ScaledAxes(locals.eigvec, locals.eigval, call.level)]
    /\ pc' = "positions"
    /\ UNCHANGED <<call, ret>>

\* Lines 137-142. The module imports division from __future__, so n /= 2
\* makes n a float.
ComputePositions ==
    /\ pc = "positions"
    /\ locals' = [locals EXCEPT
                     !.pos = Positions(ShiftedAngles(locals.n.v, locals.eigvec),
                                       locals.eigvec),
                     !.n = [float |-> TRUE, v |-> locals.n.v \div 2]]
    /\ pc' = "return"
    /\ UNCHANGED <<call, ret>>

\* Line 145. The slice bounds are floats: numpy before 1.12 truncates them
\* (with a deprecation warning), numpy from 1.12 on raises TypeError.
ReturnEllipse ==
    /\ pc = "return"
    /\ \/ ret' = Returned(BoundaryTriple(locals.pos, locals.n.v))
       \/ /\ locals.n.float
          /\ ret' = Raised("TypeError")
    /\ pc' = "done"
    /\ UNCHANGED <<call, locals>>

NextEllipse == Eig \/ Axes \/ ComputePositions \/ ReturnEllipse

SpecEllipse == InitEllipse /\ [][NextEllipse]_vars

(***************************************************************************)
(* Claims about ellipse_bounds (specification SpecEllipse).                 *)
(***************************************************************************)
Tol == One \div 100

\* P is positive definite (Sylvester's criterion, on the integer entries).
PositiveDefinite(P) == P[1][1] > 0 /\ P[1][1] * P[2][2] - P[1][2] * P[2][1] > 0

DoneEllipse == pc = "done" /\ call.op = "ellipse_bounds"

\* n rounded up to the next even number.
RoundedUp(n) == n + (n % 2)

\* |x'Px - level| <= Tol for the point (x, y).
OnLevelSet(P, level, x, y) ==
    /\ IsFin(x) /\ IsFin(y)
    /\ Abs(P[1][1] * Mul(x.v, x.v) + (P[1][2] + P[2][1]) * Mul(x.v, y.v)
           + P[2][2] * Mul(y.v, y.v) - level * One) <= Tol

\* C5: ellipse_bounds with a P that is not positive definite fails with
\* NumericalError; it returns no triple, so never one holding NaN or
\* infinite values.
C5_NotPositiveDefiniteRaisesNumericalError ==
    (DoneEllipse /\ ~PositiveDefinite(call.P)) =>
        /\ ret.outcome = "raised"
        /\ ret.error = "NumericalError"

\* C8: for a positive definite P, level > 0 and n >= 1, ellipse_bounds
\* succeeds and returns three sequences of length n'/2, n' being n rounded up
\* to the next even number.
C8_ReturnsThreeSequencesOfHalfLength ==
    (DoneEllipse /\ PositiveDefinite(call.P)) =>
        /\ ret.outcome = "returned"
        /\ Len(ret.value.x) = RoundedUp(call.n) \div 2
        /\ Len(ret.value.yu) = RoundedUp(call.n) \div 2
        /\ Len(ret.value.yl) = RoundedUp(call.n) \div 2

\* C9: for a positive definite P and every index k of a result, (x[k], yu[k])
\* and (x[k], yl[k]) lie on the level set x'Px = level within Tol; yl[k] is
\* the y of the k-th sample counted from the end of the sweep, and that
\* sample's x equals x[k] within Tol.
C9_BothBranchesOnLevelSet ==
    (DoneEllipse /\ ret.outcome = "returned" /\ PositiveDefinite(call.P)) =>
        LET x == ret.value.x
            yu == ret.value.yu
            yl == ret.value.yl
            pos == locals.pos
        IN  /\ Len(yu) = Len(x) /\ Len(yl) = Len(x)
            /\ \A k \in 1..Len(x) :
                   LET mirror == pos[Len(pos) + 1 - k]
                   IN  /\ OnLevelSet(call.P, call.level, x[k], yu[k])
                       /\ OnLevelSet(call.P, call.level, x[k], yl[k])
                       /\ yl[k] = mirror[2]
                       /\ IsFin(mirror[1])
                       /\ Abs(mirror[1].v - x[k].v) <= Tol

\* A tilted ellipse sampled at 6 angles: 3 boundary points were returned, the
\* middle one off the x axis.
C9_Witness ==
    /\ DoneEllipse
    /\ ret.outcome = "returned"
    /\ call.P = <<<<2, 1>>, <<1, 1>>>>
    /\ call.level = 2
    /\ call.n = 5
    /\ Len(ret.value.x) = 3
    /\ Abs(ret.value.yu[2].v - ret.value.yl[2].v) > One

\* C10: for a positive definite P, whatever the order and the signs of the
\* eigenvectors, yu[k] >= yl[k] (within Tol) at every index k of a result; for
\* P = identity, level = 1 and n = 4 every returned x lies in [-1, 1].
C10_UpperBranchAboveLower ==
    (DoneEllipse /\ ret.outcome = "returned" /\ PositiveDefinite(call.P)) =>
        /\ \A k \in 1..Len(ret.value.x) :
               /\ IsFin(ret.value.yu[k]) /\ IsFin(ret.value.yl[k])
               /\ ret.value.yu[k].v + Tol >= ret.value.yl[k].v
        /\ (call.P = <<<<1, 0>>, <<0, 1>>>> /\ call.level = 1 /\ call.n = 4) =>
               \A k \in 1..Len(ret.value.x) :
                   /\ IsFin(ret.value.x[k])
                   /\ Abs(ret.value.x[k].v) <= One + Tol

====
